---------------------------- MODULE Spec2Model ----------------------------
(***************************************************************************)
(* bzimage: the 64-byte packed header (src/src/lib.rs), its codec          *)
(* (write_to / read_from), the payload framing (read_header_and_payload),  *)
(* the checksum verification (validate_checksum) and the decompressor      *)
(* (decompress_data), together with the callers of tests/ that build and   *)
(* read back a container in a Cursor<Vec<u8>>.                             *)
(*                                                                         *)
(* TLC's integers are 32-bit signed, so no u32 or u64 of the program is a  *)
(* TLC integer.  A u32 is a pair and a u64 a 4-tuple of 16-bit limbs, most *)
(* significant limb first: <<hi, lo>> stands for hi * 2^16 + lo.           *)
(***************************************************************************)
EXTENDS Integers, Sequences, FiniteSets, TLC

VARIABLES
    target,   \* the build's pointer width: the width of usize, 32 or 64
    cur,      \* the Cursor<Vec<u8>>: [buf |-> the bytes, pos |-> the position]
    images,   \* what the writer put into the stream, in order (history)
    pc,       \* where the caller is: "write", "cut", "read", "failed" (a call
              \* returned an error), "crashed" (the process panicked or aborted)
    ret,      \* the results the read calls returned, in order
    verdict,  \* the last validate_checksum call: its arguments and its result
    plain     \* the last decompress_data call: its argument and its result

vars == <<target, cur, images, pc, ret, verdict, plain>>

Byte == 0..255

Pow2 == <<1, 2, 4, 8, 16, 32, 64, 128, 256, 512, 1024, 2048, 4096, 8192, 16384, 32768>>

Zeros(n) == [i \in 1..n |-> 0]

-----------------------------------------------------------------------------
(***************************************************************************)
(* 32-bit word arithmetic on <<hi, lo>>, used by SHA-256 and CRC-32.       *)
(***************************************************************************)

\* Bitwise AND of two 4-bit values: And4[16 * p + q + 1] = p AND q.
And4 ==
    [k \in 1..256 |->
        LET p == (k - 1) \div 16
            q == (k - 1) % 16
            B(v, i) == (v \div Pow2[i + 1]) % 2
        IN  B(p, 0) * B(q, 0) + 2 * B(p, 1) * B(q, 1)
              + 4 * B(p, 2) * B(q, 2) + 8 * B(p, 3) * B(q, 3)]

And16(a, b) ==
      And4[16 * (a % 16) + (b % 16) + 1]
    + 16 * And4[16 * ((a \div 16) % 16) + ((b \div 16) % 16) + 1]
    + 256 * And4[16 * ((a \div 256) % 16) + ((b \div 256) % 16) + 1]
    + 4096 * And4[16 * (a \div 4096) + (b \div 4096) + 1]

Xor16(a, b) == a + b - 2 * And16(a, b)

And(u, v) == <<And16(u[1], v[1]), And16(u[2], v[2])>>
Xor(u, v) == <<Xor16(u[1], v[1]), Xor16(u[2], v[2])>>
Not(u) == <<65535 - u[1], 65535 - u[2]>>

\* u.rotate_right(n) and u >> n, for 0 < n < 32
Rotr(u, n) ==
    LET hi == IF n >= 16 THEN u[2] ELSE u[1]
        lo == IF n >= 16 THEN u[1] ELSE u[2]
        m == n % 16
    IN  IF m = 0 THEN <<hi, lo>>
        ELSE <<(hi \div Pow2[m + 1]) + (lo % Pow2[m + 1]) * Pow2[17 - m],
               (lo \div Pow2[m + 1]) + (hi % Pow2[m + 1]) * Pow2[17 - m]>>

Shr(u, n) ==
    IF n >= 16 THEN <<0, u[1] \div Pow2[n - 15]>>
    ELSE <<u[1] \div Pow2[n + 1],
           (u[2] \div Pow2[n + 1]) + (u[1] % Pow2[n + 1]) * Pow2[17 - n]>>

RECURSIVE SumHalf(_, _, _)
SumHalf(ws, h, i) == IF i = 0 THEN 0 ELSE ws[i][h] + SumHalf(ws, h, i - 1)

\* wrapping_add of the words of ws
Add(ws) ==
    LET lo == SumHalf(ws, 2, Len(ws))
        hi == SumHalf(ws, 1, Len(ws)) + (lo \div 65536)
    IN  <<hi % 65536, lo % 65536>>

\* The four bytes of a word, most significant first / least significant first.
WordBE(w) == <<w[1] \div 256, w[1] % 256, w[2] \div 256, w[2] % 256>>
WordLE(w) == <<w[2] % 256, w[2] \div 256, w[1] % 256, w[1] \div 256>>

-----------------------------------------------------------------------------
(***************************************************************************)
(* SHA-256 (FIPS 180-4), as sha2::Sha256 computes it: new, update,         *)
(* finalize.                                                               *)
(***************************************************************************)

BigSigma0(a) == Xor(Xor(Rotr(a, 2), Rotr(a, 13)), Rotr(a, 22))
BigSigma1(e) == Xor(Xor(Rotr(e, 6), Rotr(e, 11)), Rotr(e, 25))
SmallSigma0(w) == Xor(Xor(Rotr(w, 7), Rotr(w, 18)), Shr(w, 3))
SmallSigma1(w) == Xor(Xor(Rotr(w, 17), Rotr(w, 19)), Shr(w, 10))
Ch(e, f, g) == Xor(And(e, f), And(Not(e), g))
Maj(a, b, c) == Xor(Xor(And(a, b), And(a, c)), And(b, c))

K256 == <<
      <<17034, 12184>>, <<28983, 17553>>, <<46528, 64463>>, <<59829, 56229>>,
      <<14678, 49755>>, <<23025, 4593>>, <<37439, 33444>>, <<43804, 24277>>,
      <<55303, 43672>>, <<4739, 23297>>, <<9265, 34238>>, <<21772, 32195>>,
      <<29374, 23924>>, <<32990, 45566>>, <<39900, 1703>>, <<49563, 61812>>,
      <<58523, 27073>>, <<61374, 18310>>, <<4033, 40390>>, <<9228, 41420>>,
      <<11753, 11375>>, <<19060, 33962>>, <<23728, 43484>>, <<30457, 35034>>,
      <<38974, 20818>>, <<43057, 50797>>, <<45059, 10184>>, <<48985, 32711>>,
      <<50912, 3059>>, <<54695, 37191>>, <<1738, 25425>>, <<5161, 10599>>,
      <<10167, 2693>>, <<11803, 8504>>, <<19756, 28156>>, <<21304, 3347>>,
      <<25866, 29524>>, <<30314, 2747>>, <<33218, 51502>>, <<37490, 11397>>,
      <<41663, 59553>>, <<43034, 26187>>, <<49739, 35696>>, <<51052, 20899>>,
      <<53650, 59417>>, <<54937, 1572>>, <<62478, 13701>>, <<4202, 41072>>,
      <<6564, 49430>>, <<7735, 27656>>, <<10056, 30540>>, <<13488, 48309>>,
      <<14620, 3251>>, <<20184, 43594>>, <<23452, 51791>>, <<26670, 28659>>,
      <<29839, 33518>>, <<30885, 25455>>, <<33992, 30740>>, <<36039, 520>>,
      <<37054, 65530>>, <<42064, 27883>>, <<48889, 41975>>, <<50801, 30962>>>>

H256 == <<
      <<27145, 58983>>, <<47975, 44677>>, <<15470, 62322>>, <<42319, 62778>>,
      <<20750, 21119>>, <<39685, 26764>>, <<8067, 55723>>, <<23520, 52505>>>>

\* Padding: 0x80, zeros up to 56 mod 64, then the bit length as a 64-bit
\* big-endian integer (the messages of the model are shorter than 2^28 bytes).
Sha256Pad(msg) ==
    LET n == Len(msg)
        bits == n * 8
    IN  msg \o <<128>> \o Zeros((119 - n) % 64)
            \o <<0, 0, 0, 0>> \o WordBE(<<bits \div 65536, bits % 65536>>)

\* Big-endian word t (0..15) of block k (from 0) of the padded message.
BlockWord(p, k, t) ==
    LET o == 64 * k + 4 * t
    IN  <<p[o + 1] * 256 + p[o + 2], p[o + 3] * 256 + p[o + 4]>>

\* The message schedule: w extended by its words lo..hi (w has lo - 1 words).
\* The loops of this section split their range in two, and finish the first
\* half before they start the second (w = w evaluates w): TLC evaluates an
\* operator's argument where it is first used, and nests what it evaluates.
RECURSIVE Schedule(_, _, _)
ScheduleRest(w, lo, hi) == IF w = w THEN Schedule(w, lo, hi) ELSE w
Schedule(w, lo, hi) ==
    IF lo = hi
    THEN Append(w, Add(<<SmallSigma1(w[lo - 2]), w[lo - 7],
                         SmallSigma0(w[lo - 15]), w[lo - 16]>>))
    ELSE ScheduleRest(Schedule(w, lo, (lo + hi) \div 2), ((lo + hi) \div 2) + 1, hi)

\* One round on the working state s = <<a, b, c, d, e, f, g, h>>
RoundState(s, t1, t2) ==
    <<Add(<<t1, t2>>), s[1], s[2], s[3], Add(<<s[4], t1>>), s[5], s[6], s[7]>>
Round(s, k, w) ==
    RoundState(s, Add(<<s[8], BigSigma1(s[5]), Ch(s[5], s[6], s[7]), k, w>>),
                  Add(<<BigSigma0(s[1]), Maj(s[1], s[2], s[3])>>))

\* Rounds lo..hi
RECURSIVE Rounds(_, _, _, _)
RoundsRest(s, w, lo, hi) == IF s = s THEN Rounds(s, w, lo, hi) ELSE s
Rounds(s, w, lo, hi) ==
    IF lo = hi THEN Round(s, K256[lo], w[lo])
    ELSE RoundsRest(Rounds(s, w, lo, (lo + hi) \div 2), w, ((lo + hi) \div 2) + 1, hi)

Feed(h, s) == [i \in 1..8 |-> Add(<<h[i], s[i]>>)]

\* The compression function on block k (from 0) of the padded message p
Compress(h, p, k) ==
    Feed(h, Rounds(h, Schedule([t \in 1..16 |-> BlockWord(p, k, t - 1)], 17, 64), 1, 64))

\* Blocks lo..hi of the padded message p
RECURSIVE Blocks(_, _, _, _)
BlocksRest(h, p, lo, hi) == IF h = h THEN Blocks(h, p, lo, hi) ELSE h
Blocks(h, p, lo, hi) ==
    IF lo = hi THEN Compress(h, p, lo)
    ELSE BlocksRest(Blocks(h, p, lo, (lo + hi) \div 2), p, ((lo + hi) \div 2) + 1, hi)

DigestBytes(h) == [i \in 1..32 |-> WordBE(h[((i - 1) \div 4) + 1])[((i - 1) % 4) + 1]]
HashPadded(p) == DigestBytes(Blocks(H256, p, 0, (Len(p) \div 64) - 1))

\* Sha256::new(); update(msg); finalize(): the 32-byte digest.
Sha256Digest(msg) == HashPadded(Sha256Pad(msg))

-----------------------------------------------------------------------------
(***************************************************************************)
(* CRC-32 (IEEE 802.3, reflected, polynomial 0xEDB88320), the checksum of  *)
(* a gzip member's trailer.                                                *)
(***************************************************************************)

CrcPoly == <<60856, 33568>>

RECURSIVE CrcShift(_, _)
CrcShift(c, n) ==
    IF n = 0 THEN c
    ELSE CrcShift(IF c[2] % 2 = 1 THEN Xor(Shr(c, 1), CrcPoly) ELSE Shr(c, 1), n - 1)

CrcTable == [b \in 0..255 |-> CrcShift(<<0, b>>, 8)]

\* The register after the bytes data[lo..hi]
RECURSIVE CrcUpdate(_, _, _, _)
CrcRest(c, data, lo, hi) == IF c = c THEN CrcUpdate(c, data, lo, hi) ELSE c
CrcUpdate(c, data, lo, hi) ==
    IF lo > hi THEN c
    ELSE IF lo = hi THEN Xor(CrcTable[Xor16(c[2] % 256, data[lo])], Shr(c, 8))
    ELSE CrcRest(CrcUpdate(c, data, lo, (lo + hi) \div 2), data, ((lo + hi) \div 2) + 1, hi)

Crc32(data) == Not(CrcUpdate(<<65535, 65535>>, data, 1, Len(data)))

-----------------------------------------------------------------------------
(***************************************************************************)
(* gzip (RFC 1952) over deflate (RFC 1951), as flate2 writes and reads it. *)
(* The encoder emits the payload as one stored deflate block, which every  *)
(* gzip decoder inflates; the decoder inflates stored blocks, and reports  *)
(* a Huffman-coded block as "huffman": no input of the model carries one.  *)
(***************************************************************************)

Le16(n) == <<n % 256, (n \div 256) % 256>>
NatWord(n) == <<n \div 65536, n % 65536>>

\* The ten header bytes GzEncoder::new(_, Compression::best()) writes: ID1 ID2,
\* CM = 8 (deflate), FLG = 0, MTIME = 0, XFL = 2 (best), OS = 255 (unknown).
GzHeaderBytes == <<31, 139, 8, 0, 0, 0, 0, 0, 2, 255>>

\* One final stored block: BFINAL = 1, BTYPE = 00, LEN, NLEN = ~LEN, the bytes.
DeflateStored(data) ==
    <<1>> \o Le16(Len(data)) \o Le16(65535 - Len(data)) \o data

\* GzEncoder: write_all(data); finish(): header, deflate stream, CRC-32 and
\* ISIZE, both little-endian.
GzEncode(data) ==
    GzHeaderBytes \o DeflateStored(data) \o WordLE(Crc32(data)) \o WordLE(NatWord(Len(data)))

GzErr(e) == [ok |-> FALSE, err |-> e, out |-> <<>>, next |-> 0]

\* The index after the zero-terminated string starting at d[i]; 0 if d ends first.
RECURSIVE CStringEnd(_, _)
CStringEnd(d, i) ==
    IF i > Len(d) THEN 0 ELSE IF d[i] = 0 THEN i + 1 ELSE CStringEnd(d, i + 1)

Flag(flg, bit) == (flg \div Pow2[bit + 1]) % 2 = 1

\* The index of the first deflate byte of the member d, 0 if d ends inside the
\* header, -1 if the header is invalid.
GzHeaderEnd(d) ==
    IF Len(d) < 10 THEN 0
    ELSE IF d[1] # 31 \/ d[2] # 139 \/ d[3] # 8 \/ d[4] >= 32 THEN -1
    ELSE
      LET flg == d[4]
          afterExtra ==
              IF ~Flag(flg, 2) THEN 11
              ELSE IF Len(d) < 12 THEN 0
              ELSE IF 12 + d[11] + 256 * d[12] > Len(d) THEN 0
              ELSE 13 + d[11] + 256 * d[12]
          afterName ==
              IF afterExtra = 0 \/ ~Flag(flg, 3) THEN afterExtra
              ELSE CStringEnd(d, afterExtra)
          afterComment ==
              IF afterName = 0 \/ ~Flag(flg, 4) THEN afterName
              ELSE CStringEnd(d, afterName)
      IN  IF afterComment = 0 \/ ~Flag(flg, 1) THEN afterComment
          ELSE IF afterComment + 1 > Len(d) THEN 0
          ELSE IF Le16(Crc32(SubSeq(d, 1, afterComment - 1))[2])
                    # <<d[afterComment], d[afterComment + 1]>> THEN -1
          ELSE afterComment + 2

\* The deflate stream starting at d[i], with out inflated so far.
RECURSIVE Inflate(_, _, _)
Inflate(d, i, out) ==
    IF i > Len(d) THEN GzErr("unexpected end of file")
    ELSE
      LET final == d[i] % 2 = 1
          btype == (d[i] \div 2) % 4
          len == d[i + 1] + 256 * d[i + 2]
          nlen == d[i + 3] + 256 * d[i + 4]
          all == out \o SubSeq(d, i + 5, i + 4 + len)
      IN  IF btype = 3 THEN GzErr("corrupt deflate stream")
          ELSE IF btype # 0 THEN GzErr("huffman")
          ELSE IF i + 4 > Len(d) THEN GzErr("unexpected end of file")
          ELSE IF len + nlen # 65535 THEN GzErr("corrupt deflate stream")
          ELSE IF i + 4 + len > Len(d) THEN GzErr("unexpected end of file")
          ELSE IF final THEN [ok |-> TRUE, err |-> "", out |-> all, next |-> i + 5 + len]
          ELSE Inflate(d, i + 5 + len, all)

\* GzDecoder::new(d) read to its end: one member; what follows it is not read.
GzDecode(d) ==
    LET start == GzHeaderEnd(d)
        body == Inflate(d, start, <<>>)
        t == body.next
    IN  IF start = 0 THEN GzErr("unexpected end of file")
        ELSE IF start < 0 THEN GzErr("invalid gzip header")
        ELSE IF ~body.ok THEN body
        ELSE IF t + 7 > Len(d) THEN GzErr("unexpected end of file")
        ELSE IF SubSeq(d, t, t + 3) # WordLE(Crc32(body.out))
                \/ SubSeq(d, t + 4, t + 7) # WordLE(NatWord(Len(body.out)))
             THEN GzErr("corrupt gzip stream does not have a matching checksum")
        ELSE body

-----------------------------------------------------------------------------
(***************************************************************************)
(* The header (src/src/lib.rs).  A header is a record of its seven fields; *)
(* magic and checksum are byte sequences, the integer fields are the       *)
(* values the endian types u32le / u64le hold (limbs, see above).          *)
(***************************************************************************)

MAGIC == <<68, 77, 78, 90>>

VERSION == <<0, 1>>

HEADER_SIZE == 64

\* Faulty u64le / u32le: the bytes written, or read, most significant first
U64beBytes(v) == WordBE(<<v[1], v[2]>>) \o WordBE(<<v[3], v[4]>>)
U32beRead(b) == <<b[1] * 256 + b[2], b[3] * 256 + b[4]>>

\* u32le / u64le (simple_endian): the bytes the value occupies in memory,
\* least significant first, and the value read_specific builds from such bytes.
U32leBytes(v) == WordLE(v)
U64leBytes(v) == WordLE(<<v[3], v[4]>>) \o WordLE(<<v[1], v[2]>>)
U32leRead(b) == <<b[4] * 256 + b[3], b[2] * 256 + b[1]>>
U64leRead(b) == <<b[8] * 256 + b[7], b[6] * 256 + b[5], b[4] * 256 + b[3], b[2] * 256 + b[1]>>

\* n as u64, for a length n of the model (n < 2^31)
U64Of(n) == <<0, 0, n \div 65536, n % 65536>>

BzImageHeader(magic, version, reserved1, uncompressed_size, compressed_size, checksum, reserved2) ==
    [magic |-> magic, version |-> version, reserved1 |-> reserved1,
     uncompressed_size |-> uncompressed_size, compressed_size |-> compressed_size,
     checksum |-> checksum, reserved2 |-> reserved2]

\* A faulty layout, #[repr(C)] without packed: uncompressed_size aligned to 8
StructBytesPadded(h) ==
    h.magic \o U32leBytes(h.version) \o U32leBytes(h.reserved1) \o Zeros(4)
        \o U64leBytes(h.uncompressed_size) \o U64leBytes(h.compressed_size)
        \o h.checksum \o U32leBytes(h.reserved2) \o Zeros(4)

\* #[repr(C, packed)]: the fields in declaration order with no padding.
StructBytes(h) ==
    h.magic \o U32leBytes(h.version) \o U32leBytes(h.reserved1)
        \o U64leBytes(h.uncompressed_size) \o U64leBytes(h.compressed_size)
        \o h.checksum \o U32leBytes(h.reserved2)

\* std::mem::size_of::<BzImageHeader>()
size == 4 + 4 + 4 + 8 + 8 + 32 + 4

-----------------------------------------------------------------------------
(***************************************************************************)
(* The stream: a Cursor<Vec<u8>>, [buf, pos] with pos <= Len(buf).         *)
(***************************************************************************)

Ok(v, c) == [status |-> "Ok", value |-> v, err |-> <<>>, cur |-> c]
Err(e, c) == [status |-> "Err", value |-> <<>>, err |-> e, cur |-> c]
\* anyhow's .context(msg): msg in front of the error's chain
Context(r, msg) == IF r.status = "Err" THEN [r EXCEPT !.err = <<msg>> \o @] ELSE r

Remaining(c) == Len(c.buf) - c.pos

\* Write::write_all on the cursor: the bytes go to pos, over what is there,
\* and the position moves past them.
write_all(c, bytes) ==
    [buf |-> SubSeq(c.buf, 1, c.pos) \o bytes
                \o SubSeq(c.buf, c.pos + Len(bytes) + 1, Len(c.buf)),
     pos |-> c.pos + Len(bytes)]

\* A faulty read_exact: a short read fills the rest of the buffer with zeros
read_exact_zero_fill(c, n) ==
    [status |-> "Ok",
     value |-> IF n <= Remaining(c) THEN SubSeq(c.buf, c.pos + 1, c.pos + n)
               ELSE SubSeq(c.buf, c.pos + 1, Len(c.buf)) \o Zeros(n - Remaining(c)),
     err |-> <<>>,
     cur |-> [c EXCEPT !.pos = IF n <= Remaining(c) THEN @ + n ELSE Len(c.buf)]]

\* Read::read_exact on the cursor for a buffer of n bytes: the n bytes at pos,
\* or UnexpectedEof with the cursor at the end.
read_exact(c, n) ==
    IF n <= Remaining(c)
    THEN Ok(SubSeq(c.buf, c.pos + 1, c.pos + n), [c EXCEPT !.pos = @ + n])
    ELSE Err(<<"UnexpectedEof">>, [c EXCEPT !.pos = Len(c.buf)])

\* Read::read_to_end on the cursor
read_to_end(c) ==
    Ok(SubSeq(c.buf, c.pos + 1, Len(c.buf)), [c EXCEPT !.pos = Len(c.buf)])

\* Seek::seek(SeekFrom::Start(0))
rewind(c) == [c EXCEPT !.pos = 0]

\* read_specific::<u32le> and ::<u64le>: size_of bytes read exactly, then the value
read_specific32(c) ==
    LET r == read_exact(c, 4)
    IN  IF r.status = "Ok" THEN Ok(U32leRead(r.value), r.cur) ELSE r

read_specific64(c) ==
    LET r == read_exact(c, 8)
    IN  IF r.status = "Ok" THEN Ok(U64leRead(r.value), r.cur) ELSE r

-----------------------------------------------------------------------------
(***************************************************************************)
(* Bounds and inputs.                                                      *)
(***************************************************************************)

\* Containers written back to back into one stream
MaxImages == 2
\* Bytes of the sample payload taken as the payloads
MaxPayloadLen == 2
\* Read calls on one stream
MaxReads == 3
\* Lengths a stream is cut to
MaxCut == 68
\* Bytes the allocator always serves
MemAvail == 4096

\* The payload of tests/integration_tests.rs, b"hello daemonizer world"
SamplePayload ==
    <<104, 101, 108, 108, 111, 32, 100, 97, 101, 109, 111, 110, 105, 122, 101, 114,
      32, 119, 111, 114, 108, 100>>

Payloads == {SubSeq(SamplePayload, 1, n) : n \in 0..MaxPayloadLen}

PointerWidths == {32, 64}

Zero32 == <<0, 0>>
Max32 == <<65535, 65535>>
Max64 == <<65535, 65535, 65535, 65535>>

\* Bytes that are no gzip stream
NotGzip == <<1, 2, 3>>

\* data with bit `bit` (0..7) of byte i flipped
FlipBit(data, i, bit) ==
    [data EXCEPT ![i] = IF (@ \div Pow2[bit + 1]) % 2 = 1
                        THEN @ - Pow2[bit + 1] ELSE @ + Pow2[bit + 1]]

\* corrupted[0] ^= 0xff (tests: checksum_mismatch_detected)
FlipFirst(data) == [data EXCEPT ![1] = 255 - @]

\* The length of the longest payload, compressed
MaxCompressedLen == Len(GzEncode(SubSeq(SamplePayload, 1, MaxPayloadLen)))

\* The data whose digest the writers and the readers below need, digested once:
\* the compressed payloads, whole, cut short and with the first byte flipped
DigestTable ==
    [d \in {GzEncode(p) : p \in Payloads} \cup {FlipFirst(GzEncode(p)) : p \in Payloads}
            \cup UNION {{SubSeq(GzEncode(p), 1, n) : n \in 0..Len(GzEncode(p))} : p \in Payloads}
            \cup {NotGzip, <<>>} |-> Sha256Digest(d)]

\* Sha256::new(); update(data); finalize().into()
Sha256(data) ==
    IF data \in DOMAIN DigestTable THEN DigestTable[data] ELSE Sha256Digest(data)

-----------------------------------------------------------------------------
(***************************************************************************)
(* impl BzImageHeader                                                      *)
(***************************************************************************)

\* write_to: the struct's bytes, size() of them, written with write_all.
write_to(h, c) == write_all(c, SubSeq(StructBytes(h), 1, size))

\* A faulty read_from: the magic is compared after all fields are read
read_from_magic_last(c) ==
    LET magic == Context(read_exact(c, 4), "reading magic")
        version == Context(read_specific32(magic.cur), "reading version")
        reserved1 == Context(read_specific32(version.cur), "reading reserved1")
        uncompressed_size ==
            Context(read_specific64(reserved1.cur), "reading uncompressed_size")
        compressed_size ==
            Context(read_specific64(uncompressed_size.cur), "reading compressed_size")
        checksum == Context(read_exact(compressed_size.cur, 32), "reading checksum")
        reserved2 == Context(read_specific32(checksum.cur), "reading reserved2")
    IN  IF magic.status = "Err" THEN magic
        ELSE IF version.status = "Err" THEN version
        ELSE IF reserved1.status = "Err" THEN reserved1
        ELSE IF uncompressed_size.status = "Err" THEN uncompressed_size
        ELSE IF compressed_size.status = "Err" THEN compressed_size
        ELSE IF checksum.status = "Err" THEN checksum
        ELSE IF reserved2.status = "Err" THEN reserved2
        ELSE IF magic.value # MAGIC THEN Err(<<"invalid magic">>, reserved2.cur)
        ELSE Ok(BzImageHeader(magic.value, version.value, reserved1.value,
                              uncompressed_size.value, compressed_size.value,
                              checksum.value, reserved2.value),
                reserved2.cur)

\* read_from: the fields one by one, each read returning early on its error.
read_from(c) ==
    LET magic == Context(read_exact(c, 4), "reading magic")
        version == Context(read_specific32(magic.cur), "reading version")
        reserved1 == Context(read_specific32(version.cur), "reading reserved1")
        uncompressed_size ==
            Context(read_specific64(reserved1.cur), "reading uncompressed_size")
        compressed_size ==
            Context(read_specific64(uncompressed_size.cur), "reading compressed_size")
        checksum == Context(read_exact(compressed_size.cur, 32), "reading checksum")
        reserved2 == Context(read_specific32(checksum.cur), "reading reserved2")
    IN  IF magic.status = "Err" THEN magic
        ELSE IF magic.value # MAGIC THEN Err(<<"invalid magic">>, magic.cur)
        ELSE IF version.status = "Err" THEN version
        ELSE IF reserved1.status = "Err" THEN reserved1
        ELSE IF uncompressed_size.status = "Err" THEN uncompressed_size
        ELSE IF compressed_size.status = "Err" THEN compressed_size
        ELSE IF checksum.status = "Err" THEN checksum
        ELSE IF reserved2.status = "Err" THEN reserved2
        ELSE Ok(BzImageHeader(magic.value, version.value, reserved1.value,
                              uncompressed_size.value, compressed_size.value,
                              checksum.value, reserved2.value),
                reserved2.cur)

\* magic_copy / checksum_copy: the 4 and the 32 bytes of the field, copied out
magic_copy(h) == [i \in 1..4 |-> h.magic[i]]
checksum_copy(h) == [i \in 1..32 |-> h.checksum[i]]

\* A faulty validate_checksum: only the first 4 bytes of the digest are compared
validate_checksum_prefix(h, compressed_data) ==
    SubSeq(Sha256(compressed_data), 1, 4) = SubSeq(checksum_copy(h), 1, 4)

\* validate_checksum: the digest of the data against the header's checksum
validate_checksum(h, compressed_data) ==
    LET actual == Sha256(compressed_data)
    IN  actual = checksum_copy(h)

\* decompress_data: GzDecoder::new(compressed) read to its end
decompress_data(compressed) ==
    LET r == GzDecode(compressed)
    IN  IF r.ok THEN [status |-> "Ok", value |-> r.out, err |-> <<>>]
        ELSE [status |-> "Err", value |-> <<>>, err |-> <<"decompressing gzip data", r.err>>]


\* compressed_size_u64 as usize: the low `bits` bits of the value, as limbs
as_usize(v, bits) == SubSeq(v, 5 - (bits \div 16), 4)

\* A usize n that is at most the number k of the model
usize_le(n, k) == (\A i \in 1..(Len(n) - 1) : n[i] = 0) /\ n[Len(n)] <= k

\* vec![0u8; n]: more than isize::MAX bytes is a capacity overflow panic; the
\* allocator always serves up to MemAvail bytes, and served is whether it serves
\* this request when it is larger (if not, handle_alloc_error aborts the process).
vec_zeroed(n, served) ==
    IF n[1] >= 32768 THEN "Panic"
    ELSE IF usize_le(n, MemAvail) \/ served THEN "Ok"
    ELSE "Abort"

\* r.read_exact(&mut compressed) for a buffer of n: usize bytes
read_exact_usize(c, n) ==
    IF usize_le(n, Remaining(c)) THEN read_exact(c, n[Len(n)])
    ELSE Err(<<"UnexpectedEof">>, [c EXCEPT !.pos = Len(c.buf)])

Died(how, c) == [status |-> how, value |-> <<>>, err |-> <<>>, cur |-> c]

\* A faulty read_header_and_payload: it verifies the payload's digest itself
read_header_and_payload_verified(c, bits, served) ==
    LET header == Context(read_from(c), "reading header")
        compressed_size == as_usize(header.value.compressed_size, bits)
        compressed == Context(read_exact_usize(header.cur, compressed_size),
                              "reading compressed payload")
    IN  IF header.status = "Err" THEN header
        ELSE IF vec_zeroed(compressed_size, served) # "Ok"
             THEN Died(vec_zeroed(compressed_size, served), header.cur)
        ELSE IF compressed.status = "Err" THEN compressed
        ELSE IF ~validate_checksum(header.value, compressed.value)
             THEN Err(<<"checksum mismatch">>, compressed.cur)
        ELSE Ok(<<header.value, compressed.value>>, compressed.cur)

\* read_header_and_payload on a build whose usize has `bits` bits
read_header_and_payload(c, bits, served) ==
    LET header == Context(read_from(c), "reading header")
        compressed_size == as_usize(header.value.compressed_size, bits)
        compressed == Context(read_exact_usize(header.cur, compressed_size),
                              "reading compressed payload")
    IN  IF header.status = "Err" THEN header
        ELSE IF vec_zeroed(compressed_size, served) # "Ok"
             THEN Died(vec_zeroed(compressed_size, served), header.cur)
        ELSE IF compressed.status = "Err" THEN compressed
        ELSE Ok(<<header.value, compressed.value>>, compressed.cur)

-----------------------------------------------------------------------------
(***************************************************************************)
(* The writers.  An image is what the tests write: the payload compressed, *)
(* its digest, the header built from both, then header and compressed      *)
(* bytes.  A forgery is an image with one part replaced: what a corrupted  *)
(* or hostile stream holds.                                                *)
(***************************************************************************)

Container(kind, p, h, bytes) ==
    [kind |-> kind, plain |-> p, header |-> h, payload |-> bytes]

\* tests/integration_tests.rs: round_trip_write_read_validate_decompress
Image(p) ==
    LET compressed == GzEncode(p)
        checksum == Sha256(compressed)
    IN  Container("image", p,
                  BzImageHeader(MAGIC, VERSION, Zero32, U64Of(Len(p)),
                                U64Of(Len(compressed)), checksum, Zero32),
                  compressed)

Images == [p \in Payloads |-> Image(p)]

BadMagics == {<<66, 65, 68, 33>>, <<68, 77, 78, 122>>}

ForgedSizes(n) ==
    {U64Of(0), U64Of(n - 1), U64Of(n + 1), <<0, 1, 0, n>>, <<0, 0, 32768, 0>>,
     <<0, 256, 0, 0>>, <<32768, 0, 0, 0>>, Max64}

Forgeries(img) ==
    LET h == img.header
        c == img.payload
        F(hh, bytes) == Container("forged", img.plain, hh, bytes)
    IN     {F([h EXCEPT !.magic = m], c) : m \in BadMagics}
      \cup {F([h EXCEPT !.version = v], c) : v \in {Zero32, Max32}}
      \cup {F([h EXCEPT !.reserved1 = <<41394, 50132>>, !.reserved2 = <<57005, 48879>>], c)}
      \cup {F([h EXCEPT !.compressed_size = n], c) : n \in ForgedSizes(Len(c))}
      \cup {F([h EXCEPT !.uncompressed_size = U64Of(Len(img.plain) + 1)], c)}
      \cup {F([h EXCEPT !.checksum = Zeros(32)], c)}
      \cup {F([h EXCEPT !.compressed_size = U64Of(Len(NotGzip)),
                        !.checksum = Sha256(NotGzip)], NotGzip)}
      \cup {F(h, FlipFirst(c))}

Forged == UNION {Forgeries(Images[p]) : p \in Payloads}

\* header.write_to(&mut cur); cur.write_all(&compressed)
WriteContainer(c, item) == write_all(write_to(item.header, c), item.payload)

\* The containers of a stream cut to n bytes that are still whole
RECURSIVE Whole(_, _)
Whole(items, n) ==
    IF items = <<>> \/ size + Len(Head(items).payload) > n THEN <<>>
    ELSE <<Head(items)>> \o Whole(Tail(items), n - size - Len(Head(items).payload))

-----------------------------------------------------------------------------
(***************************************************************************)
(* The state machine: a writer fills the stream, the stream is rewound,    *)
(* and a reader calls the read functions until one fails.                  *)
(***************************************************************************)

None == [status |-> "None"]

Init ==
    /\ target \in PointerWidths
    /\ cur = [buf |-> <<>>, pos |-> 0]
    /\ images = <<>>
    /\ pc = "write"
    /\ ret = <<>>
    /\ verdict = None
    /\ plain = None

\* Images are written back to back; a forgery is the only container of its stream.
CanWrite ==
    /\ pc = "write"
    /\ Len(images) < MaxImages
    /\ \A i \in 1..Len(images) : images[i].kind = "image"

WriteImage(p) ==
    /\ CanWrite
    /\ cur' = WriteContainer(cur, Images[p])
    /\ images' = Append(images, Images[p])
    /\ UNCHANGED <<target, pc, ret, verdict, plain>>

WriteForged(f) ==
    /\ CanWrite
    /\ images = <<>>
    /\ cur' = WriteContainer(cur, f)
    /\ images' = Append(images, f)
    /\ UNCHANGED <<target, pc, ret, verdict, plain>>

\* The stream ends early: only its first n bytes are there.
Truncate(n) ==
    /\ pc = "write"
    /\ n < Len(cur.buf)
    /\ cur' = [buf |-> SubSeq(cur.buf, 1, n), pos |-> n]
    /\ images' = Whole(images, n)
    /\ pc' = "cut"
    /\ UNCHANGED <<target, ret, verdict, plain>>

\* cur.seek(SeekFrom::Start(0))
Rewind ==
    /\ pc \in {"write", "cut"}
    /\ cur' = rewind(cur)
    /\ pc' = "read"
    /\ UNCHANGED <<target, images, ret, verdict, plain>>

\* What a call returned, and where the cursor was before and after it
Returned(op, r) ==
    [op |-> op, status |-> r.status, value |-> r.value, err |-> r.err,
     from |-> cur.pos, to |-> r.cur.pos]

After(r) ==
    IF r.status = "Ok" THEN "read" ELSE IF r.status = "Err" THEN "failed" ELSE "crashed"

Call(op, r) ==
    /\ cur' = r.cur
    /\ ret' = Append(ret, Returned(op, r))
    /\ pc' = After(r)
    /\ UNCHANGED <<target, images, verdict, plain>>

CanRead == pc = "read" /\ Len(ret) < MaxReads

ReadFrom == CanRead /\ Call("read_from", read_from(cur))

ReadHeaderAndPayload ==
    /\ CanRead
    /\ \E served \in BOOLEAN :
          Call("read_header_and_payload", read_header_and_payload(cur, target, served))

\* cur.read_to_end(&mut compressed_read), after a read_from: how the tests read
\* the payload of a stream that holds one container
ReadToEnd ==
    /\ CanRead
    /\ Len(images) <= 1
    /\ ret # <<>> /\ ret[Len(ret)].op = "read_from"
    /\ Call("read_to_end", read_to_end(cur))

\* The header and the compressed bytes the last calls returned
LastHeader ==
    IF ret[Len(ret)].op = "read_header_and_payload" THEN ret[Len(ret)].value[1]
    ELSE ret[Len(ret) - 1].value
LastBytes ==
    IF ret[Len(ret)].op = "read_header_and_payload" THEN ret[Len(ret)].value[2]
    ELSE ret[Len(ret)].value

HasBytes ==
    /\ pc = "read"
    /\ ret # <<>>
    /\ ret[Len(ret)].op \in {"read_header_and_payload", "read_to_end"}

\* read_header.validate_checksum(&compressed_read)
ValidateChecksum ==
    /\ HasBytes
    /\ verdict' = [status |-> "Ok", header |-> LastHeader, data |-> LastBytes,
                   value |-> validate_checksum(LastHeader, LastBytes)]
    /\ UNCHANGED <<target, cur, images, pc, ret, plain>>

\* BzImageHeader::decompress_data(&compressed_read)
DecompressData ==
    /\ HasBytes
    /\ plain' = [decompress_data(LastBytes) EXCEPT !.status = @] @@ [data |-> LastBytes]
    /\ UNCHANGED <<target, cur, images, pc, ret, verdict>>

Next ==
    \/ \E p \in Payloads : WriteImage(p)
    \/ \E f \in Forged : WriteForged(f)
    \/ \E n \in 0..MaxCut : Truncate(n)
    \/ Rewind
    \/ ReadFrom
    \/ ReadHeaderAndPayload
    \/ ReadToEnd
    \/ ValidateChecksum
    \/ DecompressData

Spec == Init /\ [][Next]_vars

TypeOK ==
    /\ target \in PointerWidths
    /\ cur.pos \in 0..Len(cur.buf)
    /\ \A i \in 1..Len(cur.buf) : cur.buf[i] \in Byte
    /\ pc \in {"header", "verify", "verified", "write", "cut", "read", "failed", "crashed"}

-----------------------------------------------------------------------------
(***************************************************************************)
(* What the properties read off a state.  During the reads the bytes of    *)
(* the stream no longer change, so a call recorded in ret ran on cur.buf,  *)
(* from the offset it recorded.                                            *)
(***************************************************************************)

EmptyCursor == [buf |-> <<>>, pos |-> 0]

\* The calls of ret to op
CallsOf(ops) == {i \in 1..Len(ret) : ret[i].op \in ops}

\* Bytes of the stream from offset `from` on
Left(from) == Len(cur.buf) - from

\* The bytes at offsets from + a .. from + b - 1 of the stream
Field(from, a, b) == SubSeq(cur.buf, from + a + 1, from + b)

\* The header the 64 bytes at `from` encode, by the layout of the format
HeaderAt(from) ==
    [magic |-> Field(from, 0, 4),
     version |-> U32leRead(Field(from, 4, 8)),
     reserved1 |-> U32leRead(Field(from, 8, 12)),
     uncompressed_size |-> U64leRead(Field(from, 12, 20)),
     compressed_size |-> U64leRead(Field(from, 20, 28)),
     checksum |-> Field(from, 28, 60),
     reserved2 |-> U32leRead(Field(from, 60, 64))]

\* A 64-bit value below 2^16, and that value
Small(v) == v[1] = 0 /\ v[2] = 0 /\ v[3] = 0
\* v <= k for a 64-bit v and a number k of the model
AtMost(v, k) == Small(v) /\ v[4] <= k

\* The stream holds a valid header at `from`
ValidHeaderAt(from) == Left(from) >= 64 /\ Field(from, 0, 4) = MAGIC

\* The stream is one image, whole
OneImage ==
    /\ Len(images) = 1
    /\ images[1].kind = "image"
    /\ cur.buf = WriteContainer(EmptyCursor, images[1]).buf

-----------------------------------------------------------------------------
\* C1: Full-pipeline round trip.  For a stream that is one image of a payload P
\* (header with magic DMNZ, compressed_size = len(compress(P)), checksum =
\* SHA-256(compress(P)), then compress(P), written to an empty stream), the
\* first read after the rewind succeeds, be it read_header_and_payload or
\* read_from; the header it returns has the sizes and the checksum written; the
\* bytes returned (by read_header_and_payload, or by read_to_end after
\* read_from) are compress(P); validate_checksum on them is true and
\* decompress_data on them returns exactly P.
C1_RoundTrip ==
    (OneImage /\ ret # <<>>) =>
        LET P == images[1].plain
            first == ret[1]
            header == IF first.op = "read_from" THEN first.value ELSE first.value[1]
        IN  /\ first.status = "Ok"
            /\ header.magic = MAGIC
            /\ header.uncompressed_size = U64Of(Len(P))
            /\ header.compressed_size = U64Of(Len(GzEncode(P)))
            /\ header.checksum = Sha256(GzEncode(P))
            /\ first.op = "read_header_and_payload" => first.value[2] = GzEncode(P)
            /\ (Len(ret) >= 2 /\ ret[2].op = "read_to_end") =>
                    ret[2].status = "Ok" /\ ret[2].value = GzEncode(P)
            /\ verdict.status = "Ok" =>
                    verdict.data = GzEncode(P) /\ verdict.header = header /\ verdict.value
            /\ plain.status # "None" =>
                    plain.data = GzEncode(P) /\ plain.status = "Ok" /\ plain.value = P

\* A one-image stream of a non-empty payload, read with read_header_and_payload,
\* verified and decompressed.
C1_Witness ==
    /\ OneImage
    /\ images[1].plain # <<>>
    /\ ret # <<>> /\ ret[1].op = "read_header_and_payload" /\ ret[1].status = "Ok"
    /\ verdict.status = "Ok" /\ verdict.value
    /\ plain.status = "Ok" /\ plain.value = images[1].plain

-----------------------------------------------------------------------------
\* C3: Magic validation.  For every call of read_from or read_header_and_payload
\* at an offset where the stream holds at least 4 bytes that are not D,M,N,Z:
\* the call returns the invalid-magic error and no header, however many bytes
\* follow (fewer than 60 included), and it has read the 4 magic bytes only.
C3_InvalidMagic ==
    \A i \in CallsOf({"read_from", "read_header_and_payload"}) :
        (Left(ret[i].from) >= 4 /\ Field(ret[i].from, 0, 4) # MAGIC) =>
            /\ ret[i].status = "Err"
            /\ ret[i].value = <<>>
            /\ ret[i].err = IF ret[i].op = "read_from" THEN <<"invalid magic">>
                            ELSE <<"reading header", "invalid magic">>
            /\ ret[i].to = ret[i].from + 4

\* read_from on a stream of a wrong magic and fewer than 60 further bytes
C3_Witness ==
    \E i \in CallsOf({"read_from"}) :
        /\ Left(ret[i].from) \in 4..63
        /\ Field(ret[i].from, 0, 4) # MAGIC
        /\ ret[i].err = <<"invalid magic">>

-----------------------------------------------------------------------------
\* The field of the header whose read finds fewer bytes than it needs, when
\* n < 64 bytes are left
FirstShort(n) ==
    IF n < 4 THEN "reading magic"
    ELSE IF n < 8 THEN "reading version"
    ELSE IF n < 12 THEN "reading reserved1"
    ELSE IF n < 20 THEN "reading uncompressed_size"
    ELSE IF n < 28 THEN "reading compressed_size"
    ELSE IF n < 60 THEN "reading checksum"
    ELSE "reading reserved2"

\* C4: Header truncation.  For every call of read_from with fewer than 64 bytes
\* left (0 to 63, with or without a valid magic in front): the call returns an
\* error and no header, whole or partial; the error is that of the first field
\* for which too few bytes are left (or the invalid-magic error, when the four
\* magic bytes are there and wrong); read_header_and_payload, which calls
\* read_from, returns an error and no value as well.
C4_TruncatedHeader ==
    \A i \in CallsOf({"read_from", "read_header_and_payload"}) :
        Left(ret[i].from) < 64 =>
            /\ ret[i].status = "Err"
            /\ ret[i].value = <<>>
            /\ ret[i].op = "read_from" =>
                  ret[i].err =
                      IF Left(ret[i].from) >= 4 /\ Field(ret[i].from, 0, 4) # MAGIC
                      THEN <<"invalid magic">>
                      ELSE <<FirstShort(Left(ret[i].from)), "UnexpectedEof">>

\* read_from on a stream that ends inside the checksum of a header with a
\* valid magic
C4_Witness ==
    \E i \in CallsOf({"read_from"}) :
        /\ Left(ret[i].from) \in 28..59
        /\ Field(ret[i].from, 0, 4) = MAGIC
        /\ ret[i].err = <<"reading checksum", "UnexpectedEof">>

-----------------------------------------------------------------------------
\* The stream holds at `from` a valid header and the payload its compressed_size
\* announces
Framed(from) ==
    /\ ValidHeaderAt(from)
    /\ AtMost(HeaderAt(from).compressed_size, Left(from) - 64)

\* The payload of the container framed at `from`
PayloadAt(from) == Field(from, 64, 64 + HeaderAt(from).compressed_size[4])

\* C9: read_header_and_payload is framing only.  Whether a call succeeds, and
\* what it returns, follow from the magic, the compressed_size field and the
\* number of bytes of the stream: on a valid header followed by compressed_size
\* bytes it returns the header as the stream encodes it and those bytes
\* unchanged, whether or not their SHA-256 is header.checksum, whether or not
\* they are a gzip stream, whatever header.uncompressed_size says; on a wrong
\* magic, fewer than 64 bytes, or fewer bytes than a (small) compressed_size
\* asks for it returns an error.  decompress_data's result is that of the bytes
\* alone: compress(p) decompresses to p whatever uncompressed_size the header
\* of the stream carries.
C9_FramingOnly ==
    /\ \A i \in CallsOf({"read_header_and_payload"}) :
          /\ Framed(ret[i].from) =>
                /\ ret[i].status = "Ok"
                /\ ret[i].value = <<HeaderAt(ret[i].from), PayloadAt(ret[i].from)>>
          /\ (\/ Left(ret[i].from) < 64
              \/ Field(ret[i].from, 0, 4) # MAGIC
              \/ /\ AtMost(HeaderAt(ret[i].from).compressed_size, MemAvail)
                 /\ ~AtMost(HeaderAt(ret[i].from).compressed_size, Left(ret[i].from) - 64))
                => ret[i].status = "Err" /\ ret[i].value = <<>>
    /\ (Len(images) = 1 /\ cur.buf = WriteContainer(EmptyCursor, images[1]).buf
            /\ images[1].header.magic = MAGIC
            /\ images[1].header.compressed_size = U64Of(Len(images[1].payload))
            /\ ret # <<>> /\ ret[1].op = "read_header_and_payload") =>
          ret[1].status = "Ok" /\ ret[1].value = <<images[1].header, images[1].payload>>
    /\ plain.status # "None" =>
          /\ \A p \in Payloads :
                plain.data = GzEncode(p) => plain.status = "Ok" /\ plain.value = p
          /\ plain.data \in {NotGzip, <<>>} => plain.status = "Err"

\* A stream whose payload is no gzip stream and does not have the header's
\* checksum: read_header_and_payload returned it, validate_checksum said false
\* and decompress_data failed.
C9_Witness ==
    /\ Len(images) = 1
    /\ ret # <<>> /\ ret[1].op = "read_header_and_payload" /\ ret[1].status = "Ok"
    /\ ret[1].value[2] = images[1].payload
    /\ verdict.status = "Ok" /\ ~verdict.value /\ verdict.data = images[1].payload
    /\ plain.status = "Err" /\ plain.data = images[1].payload

-----------------------------------------------------------------------------
\* C5: Payload framing.  For every call of read_header_and_payload at a valid
\* 64-byte header, with cs the 64-bit value of its compressed_size field: if at
\* least cs bytes follow the header, the call returns exactly those cs bytes;
\* if fewer follow, it returns an error and no payload.
C5_PayloadFraming ==
    \A i \in CallsOf({"read_header_and_payload"}) :
        ValidHeaderAt(ret[i].from) =>
            IF AtMost(HeaderAt(ret[i].from).compressed_size, Left(ret[i].from) - 64)
            THEN ret[i].status = "Ok" /\ ret[i].value[2] = PayloadAt(ret[i].from)
            ELSE ret[i].status = "Err" /\ ret[i].value = <<>>

-----------------------------------------------------------------------------
\* C7: No abort on failure.  Every call of read_from, read_header_and_payload
\* and decompress_data returns: a value or an error.  No stream drives the
\* process into a panic or an abort.
C7_NoAbort ==
    /\ pc # "crashed"
    /\ \A i \in 1..Len(ret) : ret[i].status \in {"Ok", "Err"}
    /\ plain.status \in {"None", "Ok", "Err"}

-----------------------------------------------------------------------------
\* The stream after the containers of items are written to it, one after another
RECURSIVE WriteAll(_, _)
WriteAll(c, items) ==
    IF items = <<>> THEN c ELSE WriteAll(WriteContainer(c, Head(items)), Tail(items))

\* C10: Stream cursor after reads.  A successful read_from leaves the cursor 64
\* bytes further, a successful read_header_and_payload 64 + compressed_size
\* bytes further (compressed_size the 64-bit value of the header returned).
\* For n images written back to back, consecutive read_header_and_payload calls
\* from offset 0 return the n (header, payload) pairs in the order written, and
\* after the n-th the cursor is at the end of the stream.
C10_Cursor ==
    /\ \A i \in 1..Len(ret) :
          ret[i].status = "Ok" =>
              /\ ret[i].to >= ret[i].from
              /\ ret[i].op = "read_from" => ret[i].to = ret[i].from + 64
              /\ ret[i].op = "read_header_and_payload" =>
                    /\ ret[i].to >= ret[i].from + 64
                    /\ ret[i].value[1].compressed_size =
                           U64Of(ret[i].to - ret[i].from - 64)
    /\ (/\ images # <<>>
        /\ \A k \in 1..Len(images) : images[k].kind = "image"
        /\ cur.buf = WriteAll(EmptyCursor, images).buf
        /\ CallsOf({"read_header_and_payload"}) = 1..Len(ret)) =>
          /\ \A i \in 1..Len(ret) :
                IF i <= Len(images)
                THEN ret[i].status = "Ok"
                       /\ ret[i].value = <<images[i].header, images[i].payload>>
                ELSE ret[i].status = "Err"
          /\ Len(ret) = Len(images) => cur.pos = Len(cur.buf)

-----------------------------------------------------------------------------
(***************************************************************************)
(* The header codec on its own: a header of any field values is written to *)
(* an empty stream with write_to, the stream is rewound, and read_from     *)
(* reads it back (tests: header_write_size, and the header half of the     *)
(* round trip).                                                            *)
(***************************************************************************)

Pattern32 == <<258, 772>>
Pattern64 == <<258, 772, 1286, 1800>>

Magics == {MAGIC, <<0, 0, 0, 0>>, <<90, 78, 77, 68>>}
Words32 == {Zero32, VERSION, Pattern32, Max32}
Words64 == {U64Of(0), Pattern64, Max64}
Checksums == {Zeros(32), [i \in 1..32 |-> 8 * i - 1], Sha256(<<>>)}

Headers ==
    {BzImageHeader(m, v, r1, u, c, k, r2) :
        m \in Magics, v \in Words32, r1 \in {Zero32, Pattern32}, u \in Words64,
        c \in Words64, k \in Checksums, r2 \in {Zero32, Max32}}

InitCodec ==
    /\ target = 64
    /\ cur = EmptyCursor
    /\ images \in {<<Container("header", <<>>, h, <<>>)>> : h \in Headers}
    /\ pc = "header"
    /\ ret = <<>>
    /\ verdict = None
    /\ plain = None

\* header.write_to(&mut buf)
WriteTo ==
    /\ pc = "header"
    /\ cur' = write_to(images[1].header, cur)
    /\ pc' = "write"
    /\ UNCHANGED <<target, images, ret, verdict, plain>>

NextCodec == WriteTo \/ Rewind \/ ReadFrom

SpecCodec == InitCodec /\ [][NextCodec]_vars

\* Byte k (0 the least significant) of the integer whose limbs are v
ByteOf(v, k) ==
    IF k % 2 = 0 THEN v[Len(v) - (k \div 2)] % 256 ELSE v[Len(v) - (k \div 2)] \div 256

\* C2: write_to writes exactly 64 bytes, the reference encoding of the header,
\* whatever its field values: magic at offset 0 (4 bytes), version at 4,
\* reserved1 at 8 (4 bytes each, little-endian), uncompressed_size at 12,
\* compressed_size at 20 (8 bytes each, little-endian), checksum at 28 (32 raw
\* bytes), reserved2 at 60 (4 bytes, little-endian), nothing between or after.
C2_Encoding ==
    (images # <<>> /\ images[1].kind = "header" /\ pc # "header") =>
        LET h == images[1].header
            b == cur.buf
        IN  /\ Len(b) = HEADER_SIZE
            /\ pc = "write" => cur.pos = HEADER_SIZE
            /\ \A k \in 0..3 :
                  /\ b[1 + k] = h.magic[k + 1]
                  /\ b[5 + k] = ByteOf(h.version, k)
                  /\ b[9 + k] = ByteOf(h.reserved1, k)
                  /\ b[61 + k] = ByteOf(h.reserved2, k)
            /\ \A k \in 0..7 :
                  /\ b[13 + k] = ByteOf(h.uncompressed_size, k)
                  /\ b[21 + k] = ByteOf(h.compressed_size, k)
            /\ \A k \in 0..31 : b[29 + k] = h.checksum[k + 1]

\* The header of the test header_write_size (sizes zero, checksum zero), written
C2_Witness ==
    /\ pc = "write"
    /\ images[1].kind = "header"
    /\ images[1].header.uncompressed_size = U64Of(0)
    /\ images[1].header.compressed_size = U64Of(0)
    /\ images[1].header.checksum = Zeros(32)
    /\ Len(cur.buf) = 64

\* C8: Header codec round trip.  For every header h with magic D,M,N,Z, of any
\* version, reserved1, reserved2, sizes and checksum: read_from on the bytes
\* write_to(h) wrote succeeds, reads the 64 bytes, and returns a header equal to
\* h field by field.
C8_CodecRoundTrip ==
    (images # <<>> /\ images[1].kind = "header" /\ images[1].header.magic = MAGIC
        /\ ret # <<>>) =>
        LET h == images[1].header
            r == ret[1]
        IN  /\ r.op = "read_from" /\ r.status = "Ok" /\ r.from = 0 /\ r.to = 64
            /\ magic_copy(r.value) = h.magic
            /\ r.value.version = h.version
            /\ r.value.reserved1 = h.reserved1
            /\ r.value.uncompressed_size = h.uncompressed_size
            /\ r.value.compressed_size = h.compressed_size
            /\ checksum_copy(r.value) = h.checksum
            /\ r.value.reserved2 = h.reserved2
            /\ r.value = h

\* A header of version 0xFFFFFFFF, non-zero reserved fields and sizes, read back
C8_Witness ==
    /\ images[1].kind = "header"
    /\ images[1].header.version = Max32
    /\ images[1].header.reserved1 = Pattern32
    /\ images[1].header.reserved2 = Max32
    /\ images[1].header.uncompressed_size = Pattern64
    /\ ret # <<>> /\ ret[1].status = "Ok" /\ ret[1].value = images[1].header

-----------------------------------------------------------------------------
(***************************************************************************)
(* validate_checksum on its own: a header, and the bytes it is asked       *)
(* about: the payload written, the payload with one bit flipped, other     *)
(* bytes (tests: checksum_mismatch_detected).                              *)
(***************************************************************************)

\* The images, and each with a checksum that is not its payload's digest: all
\* zeros, and the digest with its last byte changed
VerifyInputs ==
    {Images[p] : p \in Payloads}
        \cup {Container("forged", p, [Images[p].header EXCEPT !.checksum = Zeros(32)],
                        Images[p].payload) : p \in Payloads}
        \cup {Container("forged", p, [Images[p].header EXCEPT !.checksum[32] = 255 - @],
                        Images[p].payload) : p \in Payloads}

InitVerify ==
    /\ target = 64
    /\ cur = EmptyCursor
    /\ images \in {<<c>> : c \in VerifyInputs}
    /\ pc = "verify"
    /\ ret = <<>>
    /\ verdict = None
    /\ plain = None

\* header.validate_checksum(&data)
Verify(data) ==
    /\ pc = "verify"
    /\ verdict' = [status |-> "Ok", header |-> images[1].header, data |-> data,
                   value |-> validate_checksum(images[1].header, data)]
    /\ pc' = "verified"
    /\ UNCHANGED <<target, cur, images, ret, plain>>

VerifyPayload == Verify(images[1].payload)

\* One bit of the payload written is flipped (corrupted[0] ^= 0xff flips eight)
VerifyFlipped(i, bit) ==
    /\ images[1].kind = "image"
    /\ i <= Len(images[1].payload)
    /\ Verify(FlipBit(images[1].payload, i, bit))

VerifyOther(data) == Verify(data)

NextVerify ==
    \/ VerifyPayload
    \/ \E i \in 1..MaxCompressedLen, bit \in 0..7 : VerifyFlipped(i, bit)
    \/ \E data \in {NotGzip, <<>>} : VerifyOther(data)

SpecVerify == InitVerify /\ [][NextVerify]_vars

\* C6: validate_checksum(B) returns a boolean, true exactly when SHA-256(B) is
\* the header's checksum, and leaves the header as it was; when the header's
\* checksum is the digest of the payload written, it returns false for the
\* payload with any single bit flipped.
C6_Verify ==
    verdict.status # "None" =>
        /\ verdict.status = "Ok"
        /\ verdict.value \in BOOLEAN
        /\ verdict.value <=> (Sha256Digest(verdict.data) = verdict.header.checksum)
        /\ verdict.header = images[1].header
        /\ (images[1].kind = "image" /\ verdict.data # images[1].payload) => ~verdict.value
        /\ (images[1].kind = "image" /\ verdict.data = images[1].payload) => verdict.value

\* The payload of an image with bit 0 of its last byte flipped, found wrong
C6_Witness ==
    /\ verdict.status = "Ok"
    /\ images[1].kind = "image"
    /\ images[1].plain # <<>>
    /\ verdict.data = FlipBit(images[1].payload, Len(images[1].payload), 0)
    /\ ~verdict.value

=============================================================================
